---- MODULE Spec2Model ----
(***************************************************************************)
(* Model of the ingest tools of rcjackson/ingests:                         *)
(*   scripts/neiu/ceilometer-fix-time.py   (the time anchor corrector)     *)
(*   scripts/neiu/ceil_make_daily_files.py (the daily window stitcher)     *)
(*   scripts/ingest-aqt.py, scripts/aqt-ingest.py (QC mask of ingest_aqt)  *)
(*   scripts/mrr2-ingest.py                (the file list de-duplication)  *)
(*                                                                         *)
(* Instants and stored time values are integers counted in milliseconds    *)
(* from the midnight that starts day 0 of the model's calendar.  A day     *)
(* number stands for the date string YYYYMMDD of that day.                 *)
(***************************************************************************)
EXTENDS Integers, Sequences, FiniteSets, TLC

VARIABLES
    fs,          \* corrector: path -> file (mtime, netCDF content)
    globList,    \* corrector: the list glob.glob returned before the loop
    idx,         \* corrector: position of the for loop in globList
    cpc,         \* corrector: "idle" | "loop" | "done"
    latency,     \* corrector: args.l, seconds
    output_dir,  \* corrector: args.o
    clog,        \* corrector: the logging records emitted so far
    hist,        \* corrector: per process_file call, what it saw and did
    sdir,        \* stitcher: path -> the records (time axis) of the file
    args,        \* stitcher: args.start, args.end, args.input, args.output, args.prefix
    current_date, \* stitcher: the day the while loop is at
    spc,         \* stitcher: "idle" | "loop" | "done"
    slog,        \* stitcher: the logging records emitted so far
    days,        \* stitcher: per loop iteration, what it saw and did
    aqvals,      \* ingest_aqt: the data frame built from the query, in row order
    aq_file,     \* ingest_aqt: what is stored at fname, <<>> when no file is there
    aq_pc,       \* ingest_aqt: "idle" | "call" | "done"
    aq_log,      \* ingest_aqt: the messages printed so far
    aq_hist,     \* ingest_aqt: per call, the data set before and after the QC
    file_list,   \* mrr2-ingest: the list the for loop iterates over and mutates
    mrr_pos,     \* mrr2-ingest: position of the list iterator of the for loop
    cur_time,    \* mrr2-ingest: the time stamp of the last entry kept
    mrr_pc,      \* mrr2-ingest: "idle" | "loop" | "done"
    mrr_input    \* mrr2-ingest: the list as the query returned it

corrVars == <<fs, globList, idx, cpc, latency, output_dir, clog, hist>>

stitchVars == <<sdir, args, current_date, spc, slog, days>>

aqtVars == <<aqvals, aq_file, aq_pc, aq_log, aq_hist>>

mrrVars == <<file_list, mrr_pos, cur_time, mrr_pc, mrr_input>>

vars == <<corrVars, stitchVars, aqtVars, mrrVars>>

\* ingest_aqt has not been called
AqtIdle ==
    /\ aqvals = <<>>
    /\ aq_file = <<>>
    /\ aq_pc = "idle"
    /\ aq_log = <<>>
    /\ aq_hist = <<>>

\* mrr2-ingest.py has not run
MrrIdle ==
    /\ file_list = <<>>
    /\ mrr_pos = 0
    /\ cur_time = 0
    /\ mrr_pc = "idle"
    /\ mrr_input = <<>>

----------------------------------------------------------------------------
(* Bounds of the model *)

MaxLen == 3        \* longest time axis of a file
MaxFiles == 2      \* most files matched by the corrector's glob
MaxDirFiles == 5   \* most files in the stitcher's input directory
MaxRows == 2       \* most rows of the data frame of ingest_aqt
MaxList == 3       \* most entries of the file list of mrr2-ingest
TicksPerMs == 2    \* resolution of the stitcher's time axis: ticks per millisecond

(* Program constants *)

DayMs == 86400000  \* one calendar day, in milliseconds
SecMs == 1000      \* one second, in milliseconds
HumidityLow == 0   \* lower limit of the humidity QC, exclusive
HumidityHigh == 98 \* upper limit of the humidity QC, exclusive

----------------------------------------------------------------------------
(* Generic helpers *)

Last(s) == s[Len(s)]

Range(s) == {s[i] : i \in 1..Len(s)}

RECURSIVE SeqsUpTo(_, _)
SeqsUpTo(S, n) ==
    IF n = 0 THEN {<<>>}
    ELSE LET shorter == SeqsUpTo(S, n - 1)
         IN  shorter \cup {Append(s, x) : s \in {t \in shorter : Len(t) = n - 1}, x \in S}

RECURSIVE Perms(_)
Perms(S) ==
    IF S = {} THEN {<<>>}
    ELSE UNION {{<<x>> \o p : p \in Perms(S \ {x})} : x \in S}

----------------------------------------------------------------------------
(* ceilometer-fix-time.py: pure parts *)

\* a variant that takes the midnight nearest to the anchor
MidnightNearest(mod_time) == ((mod_time + DayMs \div 2) \div DayMs) * DayMs

\* datetime.datetime(mod_time.year, mod_time.month, mod_time.day)
Midnight(mod_time) == (mod_time \div DayMs) * DayMs

\* mod_time.strftime('%Y%m%d_%H%M%S'): the instant cut to whole seconds
FormatStamp(mod_time) == mod_time \div SecMs

\* midnight.strftime("%Y-%m-%d 00:00:00"): only the date is printed
UnitsSince(midnight) == [kind |-> "since", epoch |-> (midnight \div DayMs) * DayMs]

\* a variant that falls back to the epoch when getmtime raises
GetModificationTimeFallback(file, lat) ==
    IF file.mtime.ok THEN <<file.mtime.t - lat * SecMs>> ELSE <<0>>

\* get_modification_time: the anchor, or no anchor when getmtime raises
GetModificationTime(file, lat) ==
    IF file.mtime.ok THEN <<file.mtime.t - lat * SecMs>> ELSE <<>>

\* re.sub(r'\d{8}_\d{6}', new_date_time, base_name): every embedded stamp
\* of the base name is replaced, a name without one is returned as it is
ReSubStamp(base_name, stamp) ==
    [base_name EXCEPT !.stamps = [i \in 1..Len(base_name.stamps) |-> stamp]]

NewFileName(original_file_path, mod_time) ==
    [dir |-> output_dir,
     name |-> ReSubStamp(original_file_path.name, FormatStamp(mod_time))]

\* num2date(time_var[:], units=time_var.units)
Num2Date(time_var) ==
    [i \in 1..Len(time_var.vals) |-> time_var.units.epoch + time_var.vals[i]]

\* the statements of adjust_time_variable that raise before anything is stored
DecodeRaises(time_var) ==
    \/ time_var.units.kind # "since"      \* num2date rejects the units string
    \/ Len(time_var.vals) = 0             \* times[-1] of an empty axis

\* a variant that measures each sample from the one before it
DeltaSecondsFromPrevious(times) ==
    [i \in 1..Len(times) |-> times[i] - times[IF i = 1 THEN 1 ELSE i - 1]]

DeltaSeconds(times) == [i \in 1..Len(times) |-> times[i] - times[1]]

TotalInterval(times) == Last(times) - times[1]

\* a variant that anchors the first sample, not the last, to the anchor
SecondsSinceMidnightFirst(mod_time, midnight, times) == mod_time - midnight

SecondsSinceMidnight(mod_time, midnight, times) ==
    (mod_time - midnight) - TotalInterval(times)

AdjustedTimes(mod_time, midnight, times) ==
    [i \in 1..Len(times) |->
        SecondsSinceMidnight(mod_time, midnight, times) + DeltaSeconds(times)[i]]

\* adjust_time_variable: the variable afterwards, and whether the except
\* branch logged.  fault is where the file layer raises: "none", "store"
\* (time_var[:] = ...) or "units" (time_var.units = ...)
AdjustTimeVariable(time_var, mod_time, midnight, fault) ==
    IF DecodeRaises(time_var) \/ fault = "store"
    THEN [tv |-> time_var, err |-> TRUE]
    ELSE LET stored == [time_var EXCEPT
                          !.vals = AdjustedTimes(mod_time, midnight, Num2Date(time_var))]
         IN  IF fault = "units"
             THEN [tv |-> stored, err |-> TRUE]
             ELSE [tv |-> [stored EXCEPT !.units = UnitsSince(midnight)],
                   err |-> FALSE]

\* one time variable slot of adjust_time_axis: the slot afterwards and the
\* log records it emits
AdjustSlot(slot, where, mod_time, midnight, fault) ==
    IF slot.state = "var"
    THEN LET r == AdjustTimeVariable(slot, mod_time, midnight, fault)
         IN  [slot |-> r.tv,
              log  |-> IF r.err
                       THEN <<[level |-> "error", event |-> "adjust_error", what |-> where]>>
                       ELSE <<>>]
    ELSE IF where = "time"
    THEN [slot |-> slot, log |-> <<>>]
    ELSE IF slot.state = "novar"
    THEN [slot |-> slot,
          log |-> <<[level |-> "warning", event |-> "time_not_found", what |-> where]>>]
    ELSE [slot |-> slot,
          log |-> <<[level |-> "info", event |-> "group_not_found", what |-> where]>>]

\* a variant that gives up on the groups once the top-level variable failed
AdjustTimeAxisGiveUp(nc_file, mod_time, faults) ==
    LET midnight == Midnight(mod_time)
        t == AdjustSlot(nc_file.time, "time", mod_time, midnight, faults.time)
        m == AdjustSlot(nc_file.monitoring, "monitoring", mod_time, midnight,
                        faults.monitoring)
        s == AdjustSlot(nc_file.status, "status", mod_time, midnight, faults.status)
    IN  IF t.log # <<>>
        THEN [nc  |-> [time |-> t.slot, monitoring |-> nc_file.monitoring,
                       status |-> nc_file.status],
              log |-> t.log]
        ELSE [nc  |-> [time |-> t.slot, monitoring |-> m.slot, status |-> s.slot],
              log |-> t.log \o m.log \o s.log]

\* adjust_time_axis: the dataset afterwards and the log records
AdjustTimeAxis(nc_file, mod_time, faults) ==
    LET midnight == Midnight(mod_time)
        t == AdjustSlot(nc_file.time, "time", mod_time, midnight, faults.time)
        m == AdjustSlot(nc_file.monitoring, "monitoring", mod_time, midnight,
                        faults.monitoring)
        s == AdjustSlot(nc_file.status, "status", mod_time, midnight, faults.status)
    IN  [nc  |-> [time |-> t.slot, monitoring |-> m.slot, status |-> s.slot],
         log |-> t.log \o m.log \o s.log]

----------------------------------------------------------------------------
(* ceilometer-fix-time.py: process_file and the loop of __main__ *)

Faults == {"none", "store", "units"}

\* the wall clock of the run: a file written by the run carries it as mtime
RunClock == 5 * DayMs

\* a variant of the copy that does not notice source and destination coincide
SameFileUnchecked(src, dst) == FALSE

\* shutil.copy(src, dst) refuses a destination that is the source itself
SameFile(src, dst) == src = dst

\* shutil.copy on success: the destination holds the source's content
CopyFile(files, src, dst) ==
    [p \in DOMAIN files \cup {dst} |->
        IF p = dst
        THEN [mtime |-> [ok |-> TRUE, t |-> RunClock], nc |-> files[src].nc]
        ELSE files[p]]

FileAt(files, p) == IF p \in DOMAIN files THEN <<files[p]>> ELSE <<>>

LogRec(level, event, what) == [level |-> level, event |-> event, what |-> what]

\* process_file(original_file_path, latency) under the given outcomes of the
\* file layer: the file system and the log records afterwards
ProcessFileResult(files, path, copy_ok, open_ok, faults) ==
    LET anchor == GetModificationTime(files[path], latency)
    IN  IF anchor = <<>>
        THEN [fs |-> files, new_path |-> <<>>, outcome |-> "no_anchor",
              log |-> <<LogRec("error", "mtime_error", "file")>>]
        ELSE
        LET mod_time == anchor[1]
            new_file_path == NewFileName(path, mod_time)
        IN  IF SameFile(path, new_file_path) \/ ~copy_ok
            THEN [fs |-> files, new_path |-> <<new_file_path>>,
                  outcome |-> "copy_failed",
                  log |-> <<LogRec("error", "process_error", "file")>>]
            ELSE
            LET copied == CopyFile(files, path, new_file_path)
            IN  IF ~open_ok
                THEN [fs |-> copied, new_path |-> <<new_file_path>>,
                      outcome |-> "open_failed",
                      log |-> <<LogRec("error", "process_error", "file")>>]
                ELSE
                LET adj == AdjustTimeAxis(copied[new_file_path].nc, mod_time, faults)
                IN  [fs |-> [copied EXCEPT ![new_file_path].nc = adj.nc],
                     new_path |-> <<new_file_path>>,
                     outcome |-> "processed",
                     log |-> adj.log \o <<LogRec("info", "processed", "file")>>]

NoFaults == [time |-> "none", monitoring |-> "none", status |-> "none"]

\* what the file layer does during one process_file call: the copy fails,
\* the destination cannot be opened, or both succeed and at most one of the
\* time variables is written with a fault
Envs ==
    {[copy_ok |-> FALSE, open_ok |-> TRUE, faults |-> NoFaults],
     [copy_ok |-> TRUE, open_ok |-> FALSE, faults |-> NoFaults],
     [copy_ok |-> TRUE, open_ok |-> TRUE, faults |-> NoFaults]}
    \cup {[copy_ok |-> TRUE, open_ok |-> TRUE, faults |-> [NoFaults EXCEPT ![v] = f]] :
             v \in {"time", "monitoring", "status"}, f \in Faults \ {"none"}}

\* a variant in which a failed file ends the script
AfterFileReraise(outcome) == IF outcome = "processed" THEN "loop" ELSE "aborted"

\* process_file returns normally whatever happened inside it (both of its
\* failure paths log and return), so the for loop goes on
AfterFile(outcome) == "loop"

\* the paths whose file differs between two file systems
Touched(before, after) ==
    {p \in DOMAIN after : p \notin DOMAIN before \/ after[p] # before[p]}
    \cup (DOMAIN before \ DOMAIN after)

\* one iteration of: for file_path in glob.glob(...): process_file(file_path, ...)
ProcessFile ==
    /\ cpc = "loop"
    /\ idx <= Len(globList)
    /\ \E env \in Envs :
          LET path == globList[idx]
              r == ProcessFileResult(fs, path, env.copy_ok, env.open_ok, env.faults)
          IN  /\ fs' = r.fs
              /\ clog' = clog \o r.log
              /\ hist' = Append(hist,
                     [path |-> path,
                      anchor |-> GetModificationTime(fs[path], latency),
                      new_path |-> r.new_path,
                      outcome |-> r.outcome,
                      log |-> r.log,
                      before |-> fs[path],
                      touched |-> Touched(fs, r.fs),
                      orig_after |-> FileAt(r.fs, path),
                      result |-> IF r.new_path = <<>> THEN <<>>
                                 ELSE FileAt(r.fs, r.new_path[1])])
              /\ cpc' = AfterFile(r.outcome)
    /\ idx' = idx + 1
    /\ UNCHANGED <<globList, latency, output_dir, stitchVars, aqtVars, mrrVars>>

\* the for loop is exhausted and the script ends
CorrectorExit ==
    /\ cpc = "loop"
    /\ idx > Len(globList)
    /\ cpc' = "done"
    /\ UNCHANGED <<fs, globList, idx, latency, output_dir, clog, hist, stitchVars, aqtVars, mrrVars>>

----------------------------------------------------------------------------
(* Inputs of the corrector *)

Dirs == {"in", "out"}

Latencies == {0, 3}

\* modification times: 08:00:03 on day 1; 00:00:01 on day 2 (one second
\* after midnight); 00:01:00.500 on day 1
MTimes == {DayMs + 28803000, 2 * DayMs + 1000, DayMs + 60500}

\* stamps YYYYMMDD_HHMMSS embedded in names: a nominal instrument stamp
\* (day 1, 07:00:00) and the stamp of 08:00:03 on day 1
NameStamps == {(DayMs + 25200000) \div SecMs, (DayMs + 28803000) \div SecMs}

BaseName(stem, stamps) == [stem |-> stem, stamps |-> stamps]

NamePool == {BaseName("live", s) : s \in {<<>>} \cup {<<x>> : x \in NameStamps}}

GoodUnits == {[kind |-> "since", epoch |-> 0],
              [kind |-> "since", epoch |-> DayMs + 3600000]}

BadUnits == [kind |-> "bad", epoch |-> 0]

Offsets == {0, 60000, 180000}

Slot(state, vals, units) == [state |-> state, vals |-> vals, units |-> units]

NoVar == Slot("novar", <<>>, BadUnits)

NoGroup == Slot("nogroup", <<>>, BadUnits)

ExampleAxis == <<0, 60000, 120000, 180000>>

\* the time variables the single-file runs draw from
AxisSlots ==
    {Slot("var", a, u) : a \in SeqsUpTo(Offsets, MaxLen) \cup {ExampleAxis},
                         u \in GoodUnits}
    \cup {Slot("var", <<0, 60000>>, BadUnits), NoVar}

GroupSlots ==
    {NoGroup, NoVar, Slot("var", <<60000, 0, 180000>>, [kind |-> "since", epoch |-> 0])}

File(mtime_ok, t, nc) == [mtime |-> [ok |-> mtime_ok, t |-> t], nc |-> nc]

Nc(t, m, s) == [time |-> t, monitoring |-> m, status |-> s]

\* the files the batch runs draw from
BatchNcs ==
    {Nc(Slot("var", <<0, 60000, 180000>>, [kind |-> "since", epoch |-> 0]),
        NoGroup, NoGroup),
     Nc(NoVar, Slot("var", <<0, 60000>>, [kind |-> "since", epoch |-> 0]), NoVar)}

BatchFiles ==
    {File(TRUE, DayMs + 28803000, nc) : nc \in BatchNcs}
    \cup {File(FALSE, 0, Nc(NoVar, NoGroup, NoGroup))}

InPath(name) == [dir |-> "in", name |-> name]

\* the stitcher is not run
StitcherIdle ==
    /\ sdir = <<>>
    /\ args = [start |-> 1, end |-> 0, input |-> "in", output |-> "out", prefix |-> 0]
    /\ current_date = 1
    /\ spc = "idle"
    /\ slog = <<>>
    /\ days = <<>>

\* before the run: the holding directory is empty and the script has not
\* been started
Init ==
    /\ fs = <<>>
    /\ globList = <<>>
    /\ latency = 0
    /\ output_dir = "out"
    /\ idx = 1
    /\ cpc = "idle"
    /\ clog = <<>>
    /\ hist = <<>>
    /\ StitcherIdle
    /\ AqtIdle
    /\ MrrIdle

\* the instrument leaves one more file in the holding directory
InstrumentWrites ==
    /\ cpc = "idle"
    /\ Cardinality(DOMAIN fs) < MaxFiles
    /\ \E n \in NamePool, f \in BatchFiles :
          /\ InPath(n) \notin DOMAIN fs
          /\ fs' = [p \in DOMAIN fs \cup {InPath(n)} |->
                       IF p = InPath(n) THEN f ELSE fs[p]]
    /\ UNCHANGED <<globList, idx, cpc, latency, output_dir, clog, hist, stitchVars, aqtVars, mrrVars>>

\* __main__ up to the for statement: the arguments are parsed and
\* glob.glob lists the input directory, in an order of its own
Main ==
    /\ cpc = "idle"
    /\ latency' \in Latencies
    /\ output_dir' \in Dirs
    /\ globList' \in Perms({p \in DOMAIN fs : p.dir = "in"})
    /\ cpc' = "loop"
    /\ UNCHANGED <<fs, idx, clog, hist, stitchVars, aqtVars, mrrVars>>

Script == Main \/ ProcessFile \/ CorrectorExit

Next == InstrumentWrites \/ Script

Spec == Init /\ [][Next]_vars

\* the holding directory holds one file whose time variables are drawn widely
InitAxis ==
    /\ \E t \in MTimes, top \in AxisSlots, m \in GroupSlots, s \in GroupSlots \ {NoVar} :
          fs = [p \in {InPath(BaseName("live", <<(DayMs + 25200000) \div SecMs>>))} |->
                   File(TRUE, t, Nc(top, m, s))]
    /\ globList = <<>>
    /\ latency = 0
    /\ output_dir = "out"
    /\ idx = 1
    /\ cpc = "idle"
    /\ clog = <<>>
    /\ hist = <<>>
    /\ StitcherIdle
    /\ AqtIdle
    /\ MrrIdle

SpecAxis == InitAxis /\ [][Script]_vars

\* the holding directory holds two files, each readable or not
InitLive ==
    /\ fs \in [{InPath(BaseName("live", <<x>>)) : x \in NameStamps} ->
                 {File(TRUE, DayMs + 28803000,
                       Nc(Slot("var", <<0, 60000>>, [kind |-> "since", epoch |-> 0]),
                          NoGroup, NoGroup)),
                  File(FALSE, 0, Nc(NoVar, NoGroup, NoGroup))}]
    /\ globList = <<>>
    /\ latency = 0
    /\ output_dir = "out"
    /\ idx = 1
    /\ cpc = "idle"
    /\ clog = <<>>
    /\ hist = <<>>
    /\ StitcherIdle
    /\ AqtIdle
    /\ MrrIdle

\* the interpreter runs the script's next statement whenever there is one
FairSpec == InitLive /\ [][Script]_vars /\ WF_vars(Script)

----------------------------------------------------------------------------
(* ceil_make_daily_files.py: process_files *)

\* The stitcher's instants are integers counted in ticks, TicksPerMs to the
\* millisecond, from the midnight that starts day 0.
DayTicks == DayMs * TicksPerMs

\* pd.to_datetime(date_str).floor("D")
StartOfDay(date) == date * DayTicks

\* start_of_day + timedelta(days=1)
EndOfDay(date) == StartOfDay(date) + DayTicks

\* A file name is its prefix (by its rank in string order), the date string
\* YYYYMMDD it embeds and the digits that follow the date.  sorted() compares
\* the path strings, all of one directory: prefix, then date, then the rest.
NameLess(a, b) ==
    \/ a.pre < b.pre
    \/ a.pre = b.pre /\ a.day < b.day
    \/ a.pre = b.pre /\ a.day = b.day /\ a.tod < b.tod

\* glob.glob(os.path.join(input_dir, f"*{date_str}*.nc"))
Glob(files, input_dir, date) ==
    {p \in DOMAIN files : p.dir = input_dir /\ p.name.day = date}

RECURSIVE Sorted(_)
Sorted(S) ==
    IF S = {} THEN <<>>
    ELSE LET m == CHOOSE x \in S : \A y \in S : x = y \/ NameLess(x.name, y.name)
         IN  <<m>> \o Sorted(S \ {m})

\* a variant that takes the first file of the day before
SelectedFilesFirstPrev(prev_day_files, current_day_files, next_day_files) ==
    (IF prev_day_files # <<>> THEN <<prev_day_files[1]>> ELSE <<>>)
    \o current_day_files
    \o (IF next_day_files # <<>> THEN <<next_day_files[1]>> ELSE <<>>)

\* selected_files = current_day_files; insert(0, prev[-1]); append(next[0])
SelectedFiles(prev_day_files, current_day_files, next_day_files) ==
    (IF prev_day_files # <<>> THEN <<Last(prev_day_files)>> ELSE <<>>)
    \o current_day_files
    \o (IF next_day_files # <<>> THEN <<next_day_files[1]>> ELSE <<>>)

\* a variant without the test for an empty selection
NoFilesForNever(selected_files) == FALSE

\* if selected_files: ... else: the selection is empty
NoFilesFor(selected_files) == selected_files = <<>>

\* xr.open_mfdataset(selected_files, concat_dim='time', combine='nested')
RECURSIVE Concat(_, _)
Concat(files, selected) ==
    IF selected = <<>> THEN <<>>
    ELSE files[selected[1]] \o Concat(files, Tail(selected))

InsertByTime(sorted, r) ==
    LET k == Cardinality({i \in 1..Len(sorted) : sorted[i].t <= r.t})
    IN  SubSeq(sorted, 1, k) \o <<r>> \o SubSeq(sorted, k + 1, Len(sorted))

\* daily_ds.sortby("time"): ascending, records of equal time keep their order
RECURSIVE SortByTime(_)
SortByTime(ds) ==
    IF ds = <<>> THEN <<>>
    ELSE InsertByTime(SortByTime(SubSeq(ds, 1, Len(ds) - 1)), Last(ds))

\* a variant whose slice keeps the whole of both end labels' days
SliceDayLoose(ds, date) ==
    SelectSeq(ds, LAMBDA r : r.t >= StartOfDay(date) /\ r.t <= EndOfDay(date))

\* daily_ds.sel(time=slice(start_of_day, end_of_day - pd.to_timedelta("1ms"))):
\* a label slice of a sorted index keeps both end labels
SliceDay(ds, date) ==
    SelectSeq(ds, LAMBDA r : /\ r.t >= StartOfDay(date)
                             /\ r.t <= EndOfDay(date) - TicksPerMs)

\* os.path.join(output_dir, f"{args.prefix}{date_str}-000000.nc")
OutputPath(a, date) ==
    [dir |-> a.output, name |-> [pre |-> a.prefix, day |-> date, tod |-> 0]]

StitchFaults == {"none", "open", "write"}

\* a variant in which a file the data set holds open can be overwritten
ToNetcdfRefusedNever(output_path, selected_files) == FALSE

\* daily_ds.to_netcdf(output_path) raises when output_path is one of the files
\* open_mfdataset opened: the lazily loaded data set holds the file open and
\* the file layer refuses to truncate it
ToNetcdfRefused(output_path, selected_files) == output_path \in Range(selected_files)

\* the body of the try statement for one day, under the given outcome of the
\* file layer: the directory and the log records afterwards.  The records
\* are written as float64 seconds since the day's midnight, which holds
\* every instant of the day at the axis's resolution.
StitchDay(files, a, date, fault) ==
    LET prev_day_files == Sorted(Glob(files, a.input, date - 1))
        current_day_files == Sorted(Glob(files, a.input, date))
        next_day_files == Sorted(Glob(files, a.input, date + 1))
        selected_files == SelectedFiles(prev_day_files, current_day_files, next_day_files)
        output_path == OutputPath(a, date)
    IN  IF NoFilesFor(selected_files)
        THEN [dir |-> files, selected |-> selected_files, outcome |-> "no_files",
              output |-> <<>>, log |-> <<LogRec("warning", "no_files", date)>>]
        ELSE IF fault # "none" \/ ToNetcdfRefused(output_path, selected_files)
        THEN \* open_mfdataset or to_netcdf raised
             [dir |-> files, selected |-> selected_files, outcome |-> "error",
              output |-> <<>>, log |-> <<LogRec("error", "day_error", date)>>]
        ELSE
        LET daily_ds == SliceDay(SortByTime(Concat(files, selected_files)), date)
        IN  [dir |-> [p \in DOMAIN files \cup {output_path} |->
                        IF p = output_path THEN daily_ds ELSE files[p]],
             selected |-> selected_files, outcome |-> "written",
             output |-> <<daily_ds>>, log |-> <<LogRec("info", "done", date)>>]

\* a variant in which an exception of a day leaves the loop
AfterDayReraise(outcome) == IF outcome = "error" THEN "aborted" ELSE "loop"

\* the except clause logs and the loop goes on
AfterDay(outcome) == "loop"

\* one iteration of the while loop, with current_date += timedelta(days=1),
\* the file layer failing in one of the given ways
ProcessDayUnder(faults) ==
    /\ spc = "loop"
    /\ current_date <= args.end
    /\ \E fault \in faults :
          LET r == StitchDay(sdir, args, current_date, fault)
          IN  /\ sdir' = r.dir
              /\ slog' = slog \o r.log
              /\ days' = Append(days,
                     [day |-> current_date,
                      before |-> sdir,
                      selected |-> r.selected,
                      outcome |-> r.outcome,
                      output |-> r.output,
                      touched |-> Touched(sdir, r.dir),
                      log |-> r.log])
              /\ spc' = AfterDay(r.outcome)
    /\ current_date' = current_date + 1
    /\ UNCHANGED <<args, corrVars, aqtVars, mrrVars>>

\* the while condition fails and process_files returns
StitcherExit ==
    /\ spc = "loop"
    /\ current_date > args.end
    /\ spc' = "done"
    /\ UNCHANGED <<sdir, args, current_date, slog, days, corrVars, aqtVars, mrrVars>>

ProcessDay == ProcessDayUnder(StitchFaults)

StitchNext == ProcessDay \/ StitcherExit

\* an iteration while the file layer is sound
ProcessDaySound == ProcessDayUnder({"none"})

\* the script is started once more with the arguments of the run that ended
RunAgain ==
    /\ spc = "done"
    /\ args.start <= args.end
    /\ Len(days) = args.end - args.start + 1
    /\ current_date' = args.start
    /\ spc' = "loop"
    /\ UNCHANGED <<sdir, args, slog, days, corrVars, aqtVars, mrrVars>>

RerunNext == ProcessDaySound \/ StitcherExit \/ RunAgain

----------------------------------------------------------------------------
(* Inputs of the stitcher *)

\* the corrector is not run
CorrectorIdle ==
    /\ fs = <<>>
    /\ globList = <<>>
    /\ latency = 0
    /\ output_dir = "out"
    /\ idx = 1
    /\ cpc = "idle"
    /\ clog = <<>>
    /\ hist = <<>>

FileDays == 0..3

ProcDays == 1..2

InstrumentName(day, tod) == [pre |-> 1, day |-> day, tod |-> tod]

StitchNames == {InstrumentName(d, k) : d \in FileDays, k \in 1..2}

\* the records of a file: its time axis, each sample tagged with its origin
MkFile(name, axis) == [i \in 1..Len(axis) |-> [t |-> axis[i], src |-> name, k |-> i]]

\* a file of one sample inside the day its name carries
LeanAxis(name) == <<StartOfDay(name.day) + name.tod * TicksPerMs * SecMs>>

\* time axes around the day a name carries: inside it and out of order;
\* reaching back over its midnight; reaching over the next midnight
RichAxes(name) ==
    LET S == StartOfDay(name.day)
        E == EndOfDay(name.day)
    IN  {<<S + 20 * name.tod, S + 10>>,
         <<S - 1, S>>,
         <<E - TicksPerMs - 1, E - TicksPerMs, E - 1, E>>}

\* the (output directory, prefix) pairs drawn: elsewhere, or into the input
\* directory under a prefix that sorts before or after the instrument's
OutputChoices == {<<"out", 0>>, <<"in", 0>>, <<"in", 2>>}

StitchArgs ==
    {[start |-> s, end |-> e, input |-> "in", output |-> o[1], prefix |-> o[2]] :
        s \in ProcDays, e \in ProcDays, o \in OutputChoices}

\* process_files entered: the arguments are parsed, the input directory holds
\* up to MaxDirFiles instrument files of one sample each
InitStitch ==
    /\ CorrectorIdle
    /\ AqtIdle
    /\ MrrIdle
    /\ \E names \in SUBSET StitchNames :
          /\ Cardinality(names) <= MaxDirFiles
          /\ sdir = [p \in {InPath(n) : n \in names} |-> MkFile(p.name, LeanAxis(p.name))]
    /\ args \in StitchArgs
    /\ current_date = args.start
    /\ spc = "loop"
    /\ slog = <<>>
    /\ days = <<>>

SpecStitch == InitStitch /\ [][StitchNext]_vars

\* two runs of the script, one after the other, over a sound file layer
SpecRerun == InitStitch /\ [][RerunNext]_vars

TrimNames ==
    {InstrumentName(0, 1), InstrumentName(0, 2), InstrumentName(1, 1),
     InstrumentName(2, 1), InstrumentName(2, 2)}

\* process_files entered for day 1, or days 1 and 2: the input directory
\* holds files whose time axes cross the midnights
InitTrim ==
    /\ CorrectorIdle
    /\ AqtIdle
    /\ MrrIdle
    /\ \E names \in SUBSET TrimNames :
          \E axes \in [names -> UNION {RichAxes(n) : n \in names}] :
              /\ \A n \in names : axes[n] \in RichAxes(n)
              /\ sdir = [p \in {InPath(n) : n \in names} |-> MkFile(p.name, axes[p.name])]
    /\ args \in {a \in StitchArgs : a.start = 1 /\ a.output = "out"}
    /\ current_date = args.start
    /\ spc = "loop"
    /\ slog = <<>>
    /\ days = <<>>

SpecTrim == InitTrim /\ [][StitchNext]_vars

\* process_files entered with at most one instrument file per day
InitStitchLive ==
    /\ CorrectorIdle
    /\ AqtIdle
    /\ MrrIdle
    /\ \E ds \in SUBSET ProcDays :
          sdir = [p \in {InPath(InstrumentName(d, 1)) : d \in ds} |->
                     MkFile(p.name, LeanAxis(p.name))]
    /\ args \in StitchArgs
    /\ current_date = args.start
    /\ spc = "loop"
    /\ slog = <<>>
    /\ days = <<>>

\* the interpreter runs the loop's next statement whenever there is one
FairStitch == InitStitchLive /\ [][StitchNext]_vars /\ WF_vars(StitchNext)

----------------------------------------------------------------------------
(* ingest-aqt.py and aqt-ingest.py: ingest_aqt from the data set on *)

\* A float is a record so that the missing-value marker NaN is a value of its
\* own: every ordered comparison with NaN is False.
Val(v) == [nan |-> FALSE, v |-> v]

NaN == [nan |-> TRUE, v |-> 0]

FloatLess(a, b) == ~a.nan /\ ~b.nan /\ a.v < b.v

\* the data variables of the data set; time is its index
DataVars == {"humidity", "pm25", "temperature"}

\* one element of cond = (0 < valsxr.humidity) & (valsxr.humidity < 98)
CondAt(r) ==
    /\ FloatLess(Val(HumidityLow), r.humidity)
    /\ FloatLess(r.humidity, Val(HumidityHigh))

\* cond, one boolean per record of the time index
Cond(valsxr) == [i \in 1..Len(valsxr) |-> CondAt(valsxr[i])]

\* a record of the time index with every data variable missing
MaskedRecord(r) == [t |-> r.t, humidity |-> NaN, pm25 |-> NaN, temperature |-> NaN]

\* a variant of where that drops the records the condition rejects
WhereDrop(valsxr, cond) ==
    LET F[i \in 0..Len(valsxr)] ==
            IF i = 0 THEN <<>>
            ELSE IF cond[i] THEN Append(F[i - 1], valsxr[i]) ELSE F[i - 1]
    IN  F[Len(valsxr)]

\* valsxr.where(cond, drop=False)
Where(valsxr, cond) ==
    [i \in 1..Len(valsxr) |-> IF cond[i] THEN valsxr[i] ELSE MaskedRecord(valsxr[i])]

\* valsxr['pm2.5'].shape[0]: the length of the variable along time
Pm25Shape0(valsxr) == Len(valsxr)

\* ingest_aqt from xr.Dataset.from_dataframe(aqvals) to its end: the data set
\* before and after the QC, what is at fname afterwards, what is printed
IngestAqtResult(frame, existing) ==
    LET sorted == SortByTime(frame)
        removed == <<>>
        valsxr == Where(sorted, Cond(sorted))
    IN  IF Pm25Shape0(valsxr) > 0
        THEN [sorted |-> sorted, valsxr |-> valsxr, file |-> <<valsxr>>,
              saved |-> TRUE, log |-> <<>>]
        ELSE [sorted |-> sorted, valsxr |-> valsxr, file |-> removed,
              saved |-> FALSE, log |-> <<"not saving... no data">>]

\* one call ingest_aqt(this_date, ...) of the loop over the days
IngestAqt ==
    /\ aq_pc = "call"
    /\ LET r == IngestAqtResult(aqvals, aq_file)
       IN  /\ aq_file' = r.file
           /\ aq_log' = aq_log \o r.log
           /\ aq_hist' = Append(aq_hist,
                  [before |-> r.sorted, after |-> r.valsxr, existing |-> aq_file,
                   saved |-> r.saved, file |-> r.file, log |-> r.log])
    /\ aq_pc' = "done"
    /\ UNCHANGED <<aqvals, corrVars, stitchVars, mrrVars>>

----------------------------------------------------------------------------
(* Inputs of ingest_aqt *)

\* relative humidity readings: missing, the two limits, inside, above
Humidities == {NaN, Val(HumidityLow), Val(50), Val(HumidityHigh), Val(99)}

Pm25Values == {NaN, Val(7)}

AqTimes == 1..2

\* the rows of the data frame aqvals
AqRows ==
    {[t |-> t, humidity |-> h, pm25 |-> p, temperature |-> Val(20)] :
        t \in AqTimes, h \in Humidities, p \in Pm25Values}

\* a file an earlier run left at fname
StaleFile == <<[t |-> 1, humidity |-> Val(50), pm25 |-> Val(3), temperature |-> Val(20)]>>

InitQC ==
    /\ CorrectorIdle
    /\ StitcherIdle
    /\ MrrIdle
    /\ aqvals \in SeqsUpTo(AqRows, MaxRows)
    /\ aq_file \in {<<>>, <<StaleFile>>}
    /\ aq_pc = "call"
    /\ aq_log = <<>>
    /\ aq_hist = <<>>

SpecQC == InitQC /\ [][IngestAqt]_vars

----------------------------------------------------------------------------
(* mrr2-ingest.py: the loop that drops repeated time stamps *)

\* An entry of file_list is a URL string: its last 18 characters (the time
\* stamp of the file name) and the characters before them.  Two entries are
\* the same string exactly when both parts agree.
Url(body, ts) == [body |-> body, ts |-> ts]

\* f[-18:]
TimeStamp(f) == f.ts

\* list.remove(f): the first entry equal to f is taken out
ListRemove(list, f) ==
    LET k == CHOOSE i \in 1..Len(list) :
                 list[i] = f /\ \A j \in 1..(i - 1) : list[j] # f
    IN  SubSeq(list, 1, k - 1) \o SubSeq(list, k + 1, Len(list))

\* one pass of the body of: for f in file_list.  The list iterator hands out
\* the entry at its position in the list as it is now, and moves on by one
DedupStep ==
    /\ mrr_pc = "loop"
    /\ mrr_pos < Len(file_list)
    /\ LET f == file_list[mrr_pos + 1]
           time_stamp == TimeStamp(f)
       IN  IF cur_time = time_stamp
           THEN /\ file_list' = ListRemove(file_list, f)
                /\ cur_time' = cur_time
           ELSE /\ cur_time' = time_stamp
                /\ file_list' = file_list
    /\ mrr_pos' = mrr_pos + 1
    /\ UNCHANGED <<mrr_pc, mrr_input, corrVars, stitchVars, aqtVars>>

\* the iterator's position has reached the end of the list: the loop ends
DedupExit ==
    /\ mrr_pc = "loop"
    /\ mrr_pos >= Len(file_list)
    /\ mrr_pc' = "done"
    /\ UNCHANGED <<file_list, mrr_pos, cur_time, mrr_input, corrVars, stitchVars, aqtVars>>

DedupNext == DedupStep \/ DedupExit

----------------------------------------------------------------------------
(* Inputs of mrr2-ingest.py *)

\* the URLs the query returns: two time stamps, two strings for each
Urls == {Url(b, t) : b \in 1..2, t \in 1..2}

\* file_list = list(df.value.values) and cur_time = "" (no time stamp, 0)
InitDedup ==
    /\ CorrectorIdle
    /\ StitcherIdle
    /\ AqtIdle
    /\ mrr_input \in SeqsUpTo(Urls, MaxList)
    /\ file_list = mrr_input
    /\ mrr_pos = 0
    /\ cur_time = 0
    /\ mrr_pc = "loop"

SpecDedup == InitDedup /\ [][DedupNext]_vars

----------------------------------------------------------------------------
(* Properties of the time anchor corrector *)

VarNames == {"time", "monitoring", "status"}

HasAdjustError(h, v) ==
    \E i \in 1..Len(h.log) : h.log[i].event = "adjust_error" /\ h.log[i].what = v

\* the call h adjusted variable v of the copy and logged no error for it
Adjusted(h, v) ==
    /\ h.outcome = "processed"
    /\ h.before.nc[v].state = "var"
    /\ ~HasAdjustError(h, v)

ExampleCorrected == <<28620000, 28680000, 28740000, 28800000>>

\* C1 (anchor alignment): after process_file, for every time variable that
\* was adjusted, the last stored value plus the rewritten epoch is the
\* instant M - L (so M itself when L = 0); the axis [0,60,120,180] s with
\* M = 08:00:03 and L = 3 is stored as [28620,28680,28740,28800] s.
C1_AnchorAlignment ==
    \A i \in 1..Len(hist) : \A v \in VarNames :
        Adjusted(hist[i], v) =>
            LET r == hist[i].result[1].nc[v]
                M == hist[i].before.mtime.t
            IN  /\ r.units.kind = "since"
                /\ r.units.epoch + Last(r.vals) = M - latency * SecMs
                /\ latency = 0 => r.units.epoch + Last(r.vals) = M
                /\ (/\ hist[i].before.nc[v].vals = ExampleAxis
                    /\ M = DayMs + 28803000
                    /\ latency = 3)
                   => r.vals = ExampleCorrected

C1_Witness ==
    \E i \in 1..Len(hist) :
        /\ Adjusted(hist[i], "time")
        /\ hist[i].before.nc.time.vals = ExampleAxis
        /\ hist[i].before.mtime.t = DayMs + 28803000
        /\ latency = 3
        /\ hist[i].result[1].nc.time.vals = ExampleCorrected

\* C2 (spacing preservation): for every adjusted time variable the stored
\* axis keeps its length and every consecutive difference of the decoded
\* original axis, whatever the anchor, the latency and the original epoch.
C2_SpacingPreserved ==
    \A i \in 1..Len(hist) : \A v \in VarNames :
        Adjusted(hist[i], v) =>
            LET r == hist[i].result[1].nc[v].vals
                t == Num2Date(hist[i].before.nc[v])
            IN  /\ Len(r) = Len(t)
                /\ \A k \in 1..(Len(t) - 1) : r[k + 1] - r[k] = t[k + 1] - t[k]

\* an adjusted axis of three samples that is not monotonic, has unequal
\* steps and was stored against an epoch that is not midnight of day 0
C2_Witness ==
    \E i \in 1..Len(hist) :
        /\ Adjusted(hist[i], "time")
        /\ hist[i].before.nc.time.vals = <<60000, 0, 180000>>
        /\ hist[i].before.nc.time.units.epoch # 0
        /\ hist[i].result[1].nc.time.vals # hist[i].before.nc.time.vals

\* C8 (original never modified): every process_file call leaves the file
\* at original_file_path exactly as it found it, and whenever it wrote
\* anything it wrote to a path other than original_file_path.
C8_OriginalUnmodified ==
    \A i \in 1..Len(hist) :
        /\ hist[i].orig_after = <<hist[i].before>>
        /\ hist[i].path \notin hist[i].touched

\* in one run with the output directory equal to the input directory: a
\* file whose embedded stamp already is the anchor's (the copy is refused),
\* and a file whose copy was adjusted
C8_Witness ==
    /\ output_dir = "in"
    /\ \E i \in 1..Len(hist) :
          /\ hist[i].outcome = "copy_failed"
          /\ hist[i].new_path = <<hist[i].path>>
          /\ Len(hist[i].path.name.stamps) = 1
    /\ \E i \in 1..Len(hist) :
          /\ Adjusted(hist[i], "time")
          /\ hist[i].result[1].nc # hist[i].before.nc

\* C9 (anchor unavailable): a process_file call on a file whose modification
\* time cannot be read logs one error and creates or changes no file.
C9_AnchorUnavailable ==
    \A i \in 1..Len(hist) :
        ~hist[i].before.mtime.ok =>
            /\ hist[i].outcome = "no_anchor"
            /\ hist[i].touched = {}
            /\ hist[i].new_path = <<>>
            /\ hist[i].log = <<LogRec("error", "mtime_error", "file")>>

C9_Witness ==
    \E i \in 1..Len(hist) :
        /\ ~hist[i].before.mtime.ok
        /\ hist[i].outcome = "no_anchor"
        /\ i < Len(hist)

HistPaths == [i \in 1..Len(hist) |-> hist[i].path]

\* C10 (corrector batch progress): the files handed to process_file are at
\* every moment the first idx-1 entries of the glob list, each once and in
\* order, whatever failed for earlier files, and the run reaches its end
\* with the whole list handed over.
C10_BatchProgress ==
    /\ [](HistPaths = SubSeq(globList, 1, idx - 1))
    /\ <>(cpc = "done" /\ HistPaths = globList)

\* a finished run in which a file failed and a later file was processed
C10_Witness ==
    /\ cpc = "done"
    /\ \E i \in 1..Len(hist) : \E j \in (i + 1)..Len(hist) :
          /\ hist[i].outcome \in {"no_anchor", "copy_failed", "open_failed"}
          /\ hist[j].outcome = "processed"

\* C14 as stated (atomic per-variable failure): when a step of
\* adjust_time_variable raises, the exception is logged and the variable of
\* the copy is left as the original has it, values and units both; rewritten
\* values under the old units never occur.
C14_AtomicFailure ==
    \A i \in 1..Len(hist) : \A v \in VarNames :
        (hist[i].outcome = "processed" /\ HasAdjustError(hist[i], v))
            => hist[i].result[1].nc[v] = hist[i].before.nc[v]

\* C15 as stated (top-level TimeVariableMissing is fatal): when the copy has
\* no top-level 'time' variable the call logs an error, does not log
\* 'Processed', and leaves the time variables of the groups as they were.
C15_TopLevelMissingFatal ==
    \A i \in 1..Len(hist) :
        LET h == hist[i]
        IN  (h.anchor # <<>> /\ h.before.nc.time.state # "var")
                => /\ h.outcome # "processed"
                   /\ \E k \in 1..Len(h.log) : h.log[k].level = "error"
                   /\ \A k \in 1..Len(h.log) : h.log[k].event # "processed"
                   /\ h.result # <<>>
                          => \A v \in {"monitoring", "status"} :
                                 h.result[1].nc[v] = h.before.nc[v]

GroupNames == {"monitoring", "status"}

HasLog(h, level, event, v) ==
    \E k \in 1..Len(h.log) :
        h.log[k].level = level /\ h.log[k].event = event /\ h.log[k].what = v

\* C16 (sub-group independence): in every processed file each of the groups
\* 'monitoring' and 'status' is handled by itself.  An absent group, or one
\* without 'time', is left untouched with an info or a warning and no error;
\* a time variable of a group whose own adjustment did not fail is adjusted
\* to the file's anchor against the midnight of the anchor's day, whether or
\* not the top-level variable or the other group is absent or failed.
C16_SubGroupIndependence ==
    \A i \in 1..Len(hist) : \A g \in GroupNames :
        LET h == hist[i]
        IN  h.outcome = "processed" =>
            LET b == h.before.nc[g]
                r == h.result[1].nc[g]
            IN  /\ b.state = "nogroup"
                    => r = b /\ HasLog(h, "info", "group_not_found", g)
                             /\ ~HasAdjustError(h, g)
                /\ b.state = "novar"
                    => r = b /\ HasLog(h, "warning", "time_not_found", g)
                             /\ ~HasAdjustError(h, g)
                /\ (b.state = "var" /\ ~HasAdjustError(h, g))
                    => /\ r.units = [kind |-> "since",
                                     epoch |-> (h.anchor[1] \div DayMs) * DayMs]
                       /\ r.units.epoch + Last(r.vals) = h.anchor[1]
                       /\ Len(r.vals) = Len(b.vals)

\* the top-level variable failed (its units do not decode), 'monitoring' has
\* no 'time', and 'status' was adjusted all the same
C16_Witness ==
    \E i \in 1..Len(hist) :
        LET h == hist[i]
        IN  /\ h.outcome = "processed"
            /\ HasAdjustError(h, "time")
            /\ h.before.nc.monitoring.state = "novar"
            /\ Adjusted(h, "status")
            /\ h.result[1].nc.status.vals # h.before.nc.status.vals

\* C18 as stated (no output collision): two distinct inputs of one run that
\* were both processed never have the same new_path.
C18_NoOutputCollision ==
    \A i, j \in 1..Len(hist) :
        (/\ i < j
         /\ hist[i].outcome = "processed"
         /\ hist[j].outcome = "processed"
         /\ hist[i].path # hist[j].path)
            => hist[i].new_path # hist[j].new_path

NonDecreasing(times) == \A k \in 1..(Len(times) - 1) : times[k] <= times[k + 1]

\* C20 (corrected value range): the epoch written is the midnight of the day
\* of the anchor M - L; for a decoded axis that does not decrease, every
\* stored value lies between (anchor - midnight) - total_interval and
\* anchor - midnight, so below one day; the first stored value is negative
\* exactly when the total interval exceeds the anchor's time of day.
C20_ValueRange ==
    \A i \in 1..Len(hist) : \A v \in VarNames :
        Adjusted(hist[i], v) =>
            LET r == hist[i].result[1].nc[v]
                t == Num2Date(hist[i].before.nc[v])
                anchor == hist[i].before.mtime.t - latency * SecMs
                tod == anchor - r.units.epoch
                total == Last(t) - t[1]
            IN  /\ r.units.kind = "since"
                /\ r.units.epoch % DayMs = 0
                /\ 0 <= tod /\ tod < DayMs
                /\ NonDecreasing(t)
                       => \A k \in 1..Len(r.vals) :
                              /\ tod - total <= r.vals[k]
                              /\ r.vals[k] <= tod
                              /\ r.vals[k] < DayMs
                /\ r.vals[1] < 0 <=> total > tod

\* an axis of 180 s anchored 57.5 s after midnight: its first value is
\* stored negative
C20_Witness ==
    \E i \in 1..Len(hist) :
        /\ Adjusted(hist[i], "time")
        /\ latency = 3
        /\ NonDecreasing(hist[i].before.nc.time.vals)
        /\ Len(hist[i].before.nc.time.vals) >= 2
        /\ hist[i].result[1].nc.time.vals[1] < 0
        /\ Last(hist[i].result[1].nc.time.vals) = 57500

----------------------------------------------------------------------------
(* Properties of the daily window stitcher *)

\* the matches of a date in the input directory as a day's iteration saw them
Matches(h, date) == Glob(h.before, args.input, date)

MaxName(P) == CHOOSE x \in P : \A y \in P : ~NameLess(x.name, y.name)

MinName(P) == CHOOSE x \in P : \A y \in P : ~NameLess(y.name, x.name)

Ascending(paths) ==
    \A i \in 1..(Len(paths) - 1) : NameLess(paths[i].name, paths[i + 1].name)

\* C3 (file selection): for every day D processed, selected_files is the
\* last match of D-1 in string order (if any), then every match of D in
\* ascending string order, then the first match of D+1 (if any); no other
\* match of D-1 or D+1 is selected.
C3_FileSelection ==
    \A i \in 1..Len(days) :
        LET h == days[i]
            P == Matches(h, h.day - 1)
            C == Matches(h, h.day)
            N == Matches(h, h.day + 1)
            np == IF P = {} THEN 0 ELSE 1
            nn == IF N = {} THEN 0 ELSE 1
            sel == h.selected
            cur == SubSeq(sel, np + 1, Len(sel) - nn)
        IN  /\ Len(sel) = np + Cardinality(C) + nn
            /\ P # {} => sel[1] = MaxName(P)
            /\ N # {} => sel[Len(sel)] = MinName(N)
            /\ Range(cur) = C
            /\ Ascending(cur)
            /\ \A k \in 1..Len(sel) :
                  /\ sel[k] \in P => k = 1 /\ sel[k] = MaxName(P)
                  /\ sel[k] \in N => k = Len(sel) /\ sel[k] = MinName(N)

\* the day with two files before it, two of its own and one after it
C3_Witness ==
    \E i \in 1..Len(days) :
        LET D == days[i].day
        IN  /\ Cardinality(Matches(days[i], D - 1)) = 2
            /\ Cardinality(Matches(days[i], D)) = 2
            /\ Matches(days[i], D + 1) # {}
            /\ days[i].selected =
                  <<InPath(InstrumentName(D - 1, 2)), InPath(InstrumentName(D, 1)),
                    InPath(InstrumentName(D, 2)), InPath(InstrumentName(D + 1, 1))>>

InWindow(r, date) == r.t >= StartOfDay(date) /\ r.t < EndOfDay(date)

\* C4 (day trimming): every daily file written for day D holds no record
\* before D 00:00:00 and none at or after D+1 00:00:00, and is the file
\* found at the day's output path.
C4_DayTrimmed ==
    \A i \in 1..Len(days) :
        days[i].outcome = "written" =>
            /\ \A k \in 1..Len(days[i].output[1]) :
                  InWindow(days[i].output[1][k], days[i].day)
            /\ days[i].touched = {OutputPath(args, days[i].day)}

\* a day written from files that held records before its window, at its
\* first instant and at the first instant of the next day
C4_Witness ==
    \E i \in 1..Len(days) :
        LET all == Range(Concat(days[i].before, days[i].selected))
            D == days[i].day
        IN  /\ days[i].outcome = "written"
            /\ \E r \in all : r.t < StartOfDay(D)
            /\ \E r \in all : r.t = EndOfDay(D)
            /\ \E r \in Range(days[i].output[1]) : r.t = StartOfDay(D)
            /\ \E r \in Range(days[i].output[1]) : r.src.day # D

\* C5 (day completeness), as claimed: every record of a file matching D-1,
\* D or D+1 whose instant lies in [D 00:00:00, D+1 00:00:00) is among the
\* records of selected_files and is in the file written for D.
C5_DayComplete ==
    \A i \in 1..Len(days) :
        days[i].outcome = "written" =>
            \A p \in Matches(days[i], days[i].day - 1) \cup Matches(days[i], days[i].day)
                     \cup Matches(days[i], days[i].day + 1) :
                \A k \in 1..Len(days[i].before[p]) :
                    InWindow(days[i].before[p][k], days[i].day)
                        => /\ days[i].before[p][k]
                                \in Range(Concat(days[i].before, days[i].selected))
                           /\ days[i].before[p][k] \in Range(days[i].output[1])

\* C6 (no-file day): a day for which none of the three patterns matches
\* writes nothing, logs one warning, raises nothing and is followed by the
\* next day; a day with any match attempts an output (writes it or logs
\* the error of the attempt).
C6_NoFileDay ==
    /\ spc \in {"loop", "done"}
    /\ \A i \in 1..Len(days) :
          LET h == days[i]
              none == Matches(h, h.day - 1) \cup Matches(h, h.day)
                        \cup Matches(h, h.day + 1) = {}
          IN  /\ none => /\ h.outcome = "no_files"
                         /\ h.touched = {}
                         /\ h.log = <<LogRec("warning", "no_files", h.day)>>
                         /\ current_date > h.day
              /\ ~none => h.outcome \in {"written", "error"}

\* a day without any match, followed by a day that was written
C6_Witness ==
    \E i \in 1..Len(days) : \E j \in (i + 1)..Len(days) :
        /\ days[i].outcome = "no_files"
        /\ days[i].touched = {}
        /\ days[j].outcome = "written"

DaysAttempted == [i \in 1..Len(days) |-> days[i].day]

DaysFrom(first, next) == [i \in 1..(next - first) |-> first + i - 1]

\* C7 (stitcher batch progress): the days attempted are at every moment the
\* days from start up to the loop's position, each once and ascending,
\* whatever was raised for earlier days, and the run reaches its end with
\* every day from start to end attempted.
C7_BatchProgress ==
    /\ [](/\ spc \in {"loop", "done"}
          /\ DaysAttempted = DaysFrom(args.start, current_date))
    /\ <>(/\ spc = "done"
          /\ DaysAttempted = DaysFrom(args.start,
                                      IF args.end < args.start THEN args.start
                                      ELSE args.end + 1))

\* a finished run in which a day raised and the day after it was written
C7_Witness ==
    /\ spc = "done"
    /\ \E i \in 1..Len(days) : \E j \in (i + 1)..Len(days) :
          /\ days[i].outcome = "error"
          /\ days[j].outcome = "written"

\* C17 as stated (day partition across consecutive days): when days D and
\* D+1 are both written, every record held by the selected files of both days
\* whose instant lies in [D 00:00:00, D+2 00:00:00) is in exactly one of the
\* two daily files: none is dropped by both, none is written to both.
C17_DayPartition ==
    \A i \in 1..(Len(days) - 1) :
        LET d1 == days[i]
            d2 == days[i + 1]
        IN  (d1.outcome = "written" /\ d2.outcome = "written" /\ d2.day = d1.day + 1)
                => \A r \in Range(Concat(d1.before, d1.selected))
                              \cap Range(Concat(d2.before, d2.selected)) :
                       (r.t >= StartOfDay(d1.day) /\ r.t < EndOfDay(d2.day))
                           => (r \in Range(d1.output[1])) # (r \in Range(d2.output[1]))

----------------------------------------------------------------------------
(* Properties of the QC mask of ingest_aqt *)

\* the humidity reading lies in the open range (0, 98)
InOpenRange(h) == ~h.nan /\ h.v > HumidityLow /\ h.v < HumidityHigh

\* C11 (QC masking preserves shape): the humidity QC never changes the record
\* count or the time index; every record whose humidity is outside the open
\* range (0, 98), the limits and a missing reading included, has all its data
\* variables missing afterwards, and every record inside keeps all its values.
C11_QCMaskingPreservesShape ==
    \A i \in 1..Len(aq_hist) :
        LET h == aq_hist[i]
        IN  /\ Len(h.after) = Len(h.before)
            /\ \A k \in 1..Len(h.before) :
                /\ h.after[k].t = h.before[k].t
                /\ InOpenRange(h.before[k].humidity) => h.after[k] = h.before[k]
                /\ ~InOpenRange(h.before[k].humidity)
                       => \A v \in DataVars : h.after[k][v].nan

\* a call whose data set holds a record at the upper limit with a reading that
\* the QC masks, next to a record inside the range
C11_Witness ==
    \E i \in 1..Len(aq_hist) :
        LET h == aq_hist[i]
        IN  \E k1, k2 \in 1..Len(h.before) :
                /\ h.before[k1].humidity = Val(HumidityHigh)
                /\ ~h.before[k1].pm25.nan
                /\ h.after[k1].pm25.nan
                /\ h.before[k2].humidity = Val(50)
                /\ ~h.after[k2].pm25.nan

\* the number of records of pm2.5 that are not missing
NonMissingPm25(valsxr) == Cardinality({k \in 1..Len(valsxr) : ~valsxr[k].pm25.nan})

\* C12 (EmptyResult guard): ingest_aqt writes the output file exactly when the
\* number of non-missing pm2.5 records after the QC is greater than zero; when
\* every record is masked, or there are none, no file is there afterwards and
\* the skip is reported by a message.
C12_EmptyResultGuard ==
    \A i \in 1..Len(aq_hist) :
        LET h == aq_hist[i]
        IN  /\ h.saved <=> NonMissingPm25(h.after) > 0
            /\ NonMissingPm25(h.after) = 0 => h.file = <<>> /\ h.log # <<>>

----------------------------------------------------------------------------
(* Properties of a second run of the stitcher *)

\* the iterations of the first run and of the second run for the same day
RunPairs ==
    {<<i, j>> \in (1..Len(days)) \X (1..Len(days)) :
        /\ i <= args.end - args.start + 1
        /\ j = i + (args.end - args.start + 1)}

----------------------------------------------------------------------------
(* Properties of the file list of mrr2-ingest.py *)

TimeStamps(list) == {TimeStamp(list[k]) : k \in 1..Len(list)}

\* C19 as stated (MRR dedup): when the loop has ended, no two adjacent entries
\* of file_list have the same trailing time stamp, whatever the input list
\* was, and every time stamp of the input list is still the time stamp of an
\* entry.
C19_MrrDedup ==
    mrr_pc = "done" =>
        /\ \A k \in 1..(Len(file_list) - 1) :
              TimeStamp(file_list[k]) # TimeStamp(file_list[k + 1])
        /\ TimeStamps(file_list) = TimeStamps(mrr_input)

====
